---- MODULE Spec2Model ----
(***************************************************************************)
(* Model of gen_bed.py: the PLINK .bed genotype bit-packing codec, its two *)
(* column packers and the two file writers (rand_bed_file, write_m_to_bed).*)
(*                                                                         *)
(* A genotype value is a record [nan, v]: Num(k) is the number k, NaN is   *)
(* numpy's not-a-number.  A matrix is the sequence of its columns, each a  *)
(* sequence of n values; Python's 0-based index i is position i + 1.       *)
(***************************************************************************)
EXTENDS Integers, Sequences, FiniteSets, TLC

VARIABLES
    call,           \* the function under execution
    pc,             \* its position
    err,            \* the exception that ended it ("none" while it runs)
    n,              \* number of individuals (argument n, or m.shape[0])
    p,              \* number of markers (argument p, or m.shape[1])
    magic_numbers,  \* the header flag
    m,              \* the matrix: the argument of write_m_to_bed, or the
                    \* columns the random generator has produced so far
    col,            \* the column rand_bed_file / _add_col_... works on
    col_ix,         \* loop variable of the writers, argument of the packer
    row_ix,         \* loop variable of the packers
    barr,           \* the bytearray
    randFile,       \* the file rand_bed_file writes: [opened, data]
    matFile         \* the file write_m_to_bed writes: [opened, data]

vars == <<call, pc, err, n, p, magic_numbers, m, col, col_ix, row_ix, barr,
          randFile, matFile>>

----------------------------------------------------------------------------
(* Bounds of the model *)

MaxN == 5

MaxP == 2

MaxNonRef == 1

MaxLen == 5

----------------------------------------------------------------------------
(* Genotype values *)

Num(k) == [nan |-> FALSE, v |-> k]

NaN == [nan |-> TRUE, v |-> 0]

isnan(gt) == gt.nan

\* a value outside the four recognized states
BadGt == Num(3)

BinomialValues == {Num(0), Num(1), Num(2)}

ValidValues == BinomialValues \cup {NaN}

AnyValues == ValidValues \cup {BadGt}

\* the table with Het given the code of HomRef
GT_TO_BED_BITS_HetAsRef ==
    (Num(0) :> 3) @@ (Num(1) :> 3) @@ (NaN :> 1) @@ (Num(2) :> 0)

GT_TO_BED_BITS ==
    (Num(0) :> 3) @@ (Num(1) :> 2) @@ (NaN :> 1) @@ (Num(2) :> 0)

\* GT_TO_BED_BITS[gt]: a NaN read from an array is equal to no key
HasKey(gt) == (~ gt.nan) /\ gt \in DOMAIN GT_TO_BED_BITS

MagicBytes == <<108, 27, 1>>

NoFile == [opened |-> FALSE, data |-> <<>>]

----------------------------------------------------------------------------
(* The inner loop of the packers: for _offset in range(4).                 *)
(* The result is [ok, b]: ok = FALSE when GT_TO_BED_BITS[gt] raises        *)
(* KeyError, otherwise b is the byte.                                      *)

RECURSIVE ColFor_HighFirst(_, _, _, _)
\* the inner loop walking the rows upwards: the first individual lands in
\* the most significant bits
ColFor_HighFirst(c, r0, b0, offset) ==
    IF offset = 4 THEN [ok |-> TRUE, b |-> b0]
    ELSE LET r  == r0 - 4 + offset
             gt == IF r >= Len(c) THEN Num(0) ELSE c[r + 1]
             b  == b0 * 4
         IN  IF isnan(gt) THEN ColFor_HighFirst(c, r0, b + 1, offset + 1)
             ELSE IF HasKey(gt)
                  THEN ColFor_HighFirst(c, r0, b + GT_TO_BED_BITS[gt],
                                        offset + 1)
                  ELSE [ok |-> FALSE, b |-> b]

RECURSIVE ColFor(_, _, _, _)
\* _add_col_to_bytearray_with_padding, lines 119-126, from iteration offset
ColFor(c, r0, b0, offset) ==
    IF offset = 4 THEN [ok |-> TRUE, b |-> b0]
    ELSE LET r  == r0 - 1
             gt == IF r >= Len(c) THEN Num(0) ELSE c[r + 1]
             b  == b0 * 4
         IN  IF isnan(gt) THEN ColFor(c, r, b + 1, offset + 1)
             ELSE IF HasKey(gt)
                  THEN ColFor(c, r, b + GT_TO_BED_BITS[gt], offset + 1)
                  ELSE [ok |-> FALSE, b |-> b]

RECURSIVE MatFor_PadMissing(_, _, _, _, _, _)
\* the inner loop padding with NaN instead of 0
MatFor_PadMissing(mat, shape0, cix, r0, b0, offset) ==
    IF offset = 4 THEN [ok |-> TRUE, b |-> b0]
    ELSE LET r  == r0 - 1
             gt == IF r >= shape0 THEN NaN ELSE mat[cix + 1][r + 1]
             b  == b0 * 4
         IN  IF isnan(gt)
             THEN MatFor_PadMissing(mat, shape0, cix, r, b + 1, offset + 1)
             ELSE IF HasKey(gt)
                  THEN MatFor_PadMissing(mat, shape0, cix, r,
                                         b + GT_TO_BED_BITS[gt], offset + 1)
                  ELSE [ok |-> FALSE, b |-> b]

RECURSIVE MatFor_Default(_, _, _, _, _, _)
\* the inner loop with GT_TO_BED_BITS.get(gt, 0): an unknown value is
\* given a code instead of raising KeyError
MatFor_Default(mat, shape0, cix, r0, b0, offset) ==
    IF offset = 4 THEN [ok |-> TRUE, b |-> b0]
    ELSE LET r  == r0 - 1
             gt == IF r >= shape0 THEN Num(0) ELSE mat[cix + 1][r + 1]
             b  == b0 * 4
         IN  IF isnan(gt)
             THEN MatFor_Default(mat, shape0, cix, r, b + 1, offset + 1)
             ELSE IF HasKey(gt)
                  THEN MatFor_Default(mat, shape0, cix, r,
                                      b + GT_TO_BED_BITS[gt], offset + 1)
                  ELSE MatFor_Default(mat, shape0, cix, r, b, offset + 1)

RECURSIVE MatFor(_, _, _, _, _, _)
\* _add_mat_col_to_bytearray_with_padding, lines 101-108, from iteration
\* offset; shape0 is m.shape[0]
MatFor(mat, shape0, cix, r0, b0, offset) ==
    IF offset = 4 THEN [ok |-> TRUE, b |-> b0]
    ELSE LET r  == r0 - 1
             gt == IF r >= shape0 THEN Num(0) ELSE mat[cix + 1][r + 1]
             b  == b0 * 4
         IN  IF isnan(gt) THEN MatFor(mat, shape0, cix, r, b + 1, offset + 1)
             ELSE IF HasKey(gt)
                  THEN MatFor(mat, shape0, cix, r, b + GT_TO_BED_BITS[gt],
                              offset + 1)
                  ELSE [ok |-> FALSE, b |-> b]

----------------------------------------------------------------------------
(* Inputs *)

RECURSIVE NonRefCount(_)
NonRefCount(c) ==
    IF c = <<>> THEN 0
    ELSE (IF Head(c) = Num(0) THEN 0 ELSE 1) + NonRefCount(Tail(c))

RECURSIVE MatNonRefCount(_)
MatNonRefCount(mat) ==
    IF mat = <<>> THEN 0
    ELSE NonRefCount(Head(mat)) + MatNonRefCount(Tail(mat))

RECURSIVE SparseCols(_, _, _)
\* the columns of length len over vals with at most k entries other than 0
SparseCols(len, k, vals) ==
    IF len = 0 THEN {<<>>}
    ELSE {Append(c, Num(0)) : c \in SparseCols(len - 1, k, vals)}
         \cup (IF k = 0 THEN {}
               ELSE {Append(c, x) : c \in SparseCols(len - 1, k - 1, vals),
                                    x \in vals \ {Num(0)}})

RECURSIVE SparseMats(_, _, _, _)
\* the len x cols matrices over vals with at most k entries other than 0
SparseMats(len, cols, k, vals) ==
    IF cols = 0 THEN {<<>>}
    ELSE LET byBudget == [j \in 0 .. k |-> SparseCols(len, j, vals)]
         IN  UNION {{Append(mat, c) : c \in byBudget[k - MatNonRefCount(mat)]} :
                    mat \in SparseMats(len, cols - 1, k, vals)}

\* _rand_gt_col: rng.binomial(2, maf, n) draws n values of 0..2
rand_gt_col(len, k) == SparseCols(len, k, BinomialValues)

RECURSIVE AllCols(_, _)
\* every column of length len over vals
AllCols(len, vals) ==
    IF len = 0 THEN {<<>>}
    ELSE {Append(c, x) : c \in AllCols(len - 1, vals), x \in vals}

----------------------------------------------------------------------------
(* _add_col_to_bytearray_with_padding(col, barr)                           *)

\* one iteration of the while loop, lines 116-128
AddColIter ==
    /\ pc = "col_pack"
    /\ row_ix < Len(col)
    /\ LET r == ColFor(col, row_ix + 4, 0, 0)
       IN  IF r.ok
           THEN /\ barr' = Append(barr, r.b)
                /\ row_ix' = row_ix + 4
                /\ UNCHANGED <<pc, err>>
           ELSE /\ pc' = "raised"
                /\ err' = "KeyError"
                /\ UNCHANGED <<barr, row_ix>>
    /\ UNCHANGED <<call, n, p, magic_numbers, m, col, col_ix,
                   randFile, matFile>>

\* the while condition fails: the function returns to its caller
AddColReturn ==
    /\ pc = "col_pack"
    /\ ~ (row_ix < Len(col))
    /\ pc' = IF call = "rand_bed_file" THEN "write" ELSE "returned"
    /\ UNCHANGED <<call, err, n, p, magic_numbers, m, col, col_ix, row_ix,
                   barr, randFile, matFile>>

----------------------------------------------------------------------------
(* _add_mat_col_to_bytearray_with_padding(m, col_ix, barr)                 *)

\* one iteration of the while loop, lines 98-110
AddMatColIter ==
    /\ pc = "mat_pack"
    /\ row_ix < n
    /\ LET r == MatFor(m, n, col_ix, row_ix + 4, 0, 0)
       IN  IF r.ok
           THEN /\ barr' = Append(barr, r.b)
                /\ row_ix' = row_ix + 4
                /\ UNCHANGED <<pc, err>>
           ELSE /\ pc' = "raised"
                /\ err' = "KeyError"
                /\ UNCHANGED <<barr, row_ix>>
    /\ UNCHANGED <<call, n, p, magic_numbers, m, col, col_ix,
                   randFile, matFile>>

\* the loop of the packer without padding: it stops before a last group of
\* fewer than 4 rows
AddMatColReturn_NoPad ==
    /\ pc = "mat_pack"
    /\ ~ (row_ix + 4 <= n)
    /\ pc' = IF call = "write_m_to_bed" THEN "write" ELSE "returned"
    /\ UNCHANGED <<call, err, n, p, magic_numbers, m, col, col_ix, row_ix,
                   barr, randFile, matFile>>

\* the while condition fails: the function returns to its caller
AddMatColReturn ==
    /\ pc = "mat_pack"
    /\ ~ (row_ix < n)
    /\ pc' = IF call = "write_m_to_bed" THEN "write" ELSE "returned"
    /\ UNCHANGED <<call, err, n, p, magic_numbers, m, col, col_ix, row_ix,
                   barr, randFile, matFile>>

----------------------------------------------------------------------------
(* rand_bed_file(n, p, filepath, magic_numbers)                            *)

\* lines 21-29: the buffer, the header, the generator, open(filepath, "wb")
RandOpen ==
    /\ call = "rand_bed_file"
    /\ pc = "start"
    /\ barr' = IF magic_numbers THEN MagicBytes ELSE <<>>
    /\ randFile' = [opened |-> TRUE, data |-> <<>>]
    /\ col_ix' = 0
    /\ pc' = "loop"
    /\ UNCHANGED <<call, err, n, p, magic_numbers, m, col, row_ix, matFile>>

\* lines 30-33: the next value of range(p), the column, the call of the
\* packer; rng.binomial raises ValueError on a negative n
RandLoop ==
    /\ call = "rand_bed_file"
    /\ pc = "loop"
    /\ IF col_ix < p
       THEN IF n < 0
            THEN /\ pc' = "raised"
                 /\ err' = "ValueError"
                 /\ UNCHANGED <<m, col, row_ix>>
            ELSE \E c \in rand_gt_col(n, MaxNonRef - MatNonRefCount(m)) :
                    /\ col' = c
                    /\ m' = Append(m, c)
                    /\ row_ix' = 0
                    /\ pc' = "col_pack"
                    /\ UNCHANGED err
       ELSE /\ pc' = "done"
            /\ UNCHANGED <<err, m, col, row_ix>>
    /\ UNCHANGED <<call, n, p, magic_numbers, col_ix, barr, randFile, matFile>>

\* the write without barr = bytearray(): the buffer keeps the bytes already
\* written
RandWrite_KeepBuffer ==
    /\ call = "rand_bed_file"
    /\ pc = "write"
    /\ randFile' = [randFile EXCEPT !.data = @ \o barr]
    /\ col_ix' = col_ix + 1
    /\ pc' = "loop"
    /\ UNCHANGED <<call, err, n, p, magic_numbers, m, col, row_ix, barr,
                   matFile>>

\* lines 34-35: out.write(barr); barr = bytearray()
RandWrite ==
    /\ call = "rand_bed_file"
    /\ pc = "write"
    /\ randFile' = [randFile EXCEPT !.data = @ \o barr]
    /\ barr' = <<>>
    /\ col_ix' = col_ix + 1
    /\ pc' = "loop"
    /\ UNCHANGED <<call, err, n, p, magic_numbers, m, col, row_ix, matFile>>

----------------------------------------------------------------------------
(* write_m_to_bed(m, filepath, magic_numbers)                              *)

\* lines 52-58
MOpen ==
    /\ call = "write_m_to_bed"
    /\ pc = "start"
    /\ barr' = IF magic_numbers THEN MagicBytes ELSE <<>>
    /\ matFile' = [opened |-> TRUE, data |-> <<>>]
    /\ col_ix' = 0
    /\ pc' = "loop"
    /\ UNCHANGED <<call, err, n, p, magic_numbers, m, col, row_ix, randFile>>

\* lines 59-61: the next value of range(m.shape[1]), the call of the packer
MLoop ==
    /\ call = "write_m_to_bed"
    /\ pc = "loop"
    /\ IF col_ix < Len(m)
       THEN /\ row_ix' = 0
            /\ pc' = "mat_pack"
       ELSE /\ pc' = "done"
            /\ UNCHANGED row_ix
    /\ UNCHANGED <<call, err, n, p, magic_numbers, m, col, col_ix, barr,
                   randFile, matFile>>

\* the write without barr = bytearray()
MWrite_KeepBuffer ==
    /\ call = "write_m_to_bed"
    /\ pc = "write"
    /\ matFile' = [matFile EXCEPT !.data = @ \o barr]
    /\ col_ix' = col_ix + 1
    /\ pc' = "loop"
    /\ UNCHANGED <<call, err, n, p, magic_numbers, m, col, row_ix, barr,
                   randFile>>

\* lines 62-63
MWrite ==
    /\ call = "write_m_to_bed"
    /\ pc = "write"
    /\ matFile' = [matFile EXCEPT !.data = @ \o barr]
    /\ barr' = <<>>
    /\ col_ix' = col_ix + 1
    /\ pc' = "loop"
    /\ UNCHANGED <<call, err, n, p, magic_numbers, m, col, row_ix, randFile>>

\* the matrix rand_bed_file generated is handed to write_m_to_bed, with the
\* same header flag and another file
WriteGenerated ==
    /\ call = "rand_bed_file"
    /\ pc = "done"
    /\ n >= 0
    /\ p >= 0
    /\ call' = "write_m_to_bed"
    /\ pc' = "start"
    /\ col' = <<>>
    /\ col_ix' = 0
    /\ row_ix' = 0
    /\ barr' = <<>>
    /\ UNCHANGED <<err, n, p, magic_numbers, m, randFile, matFile>>

----------------------------------------------------------------------------
(* The writers *)

Init ==
    /\ call \in {"rand_bed_file", "write_m_to_bed"}
    /\ pc = "start"
    /\ err = "none"
    /\ magic_numbers \in BOOLEAN
    /\ IF call = "rand_bed_file"
       THEN /\ n \in -1 .. MaxN
            /\ p \in -1 .. MaxP
            /\ m = <<>>
       ELSE /\ n \in 0 .. MaxN
            /\ p \in 0 .. MaxP
            /\ m \in SparseMats(n, p, MaxNonRef, AnyValues)
    /\ col = <<>>
    /\ col_ix = 0
    /\ row_ix = 0
    /\ barr = <<>>
    /\ randFile = NoFile
    /\ matFile = NoFile

Next ==
    \/ RandOpen
    \/ RandLoop
    \/ AddColIter
    \/ AddColReturn
    \/ RandWrite
    \/ MOpen
    \/ MLoop
    \/ AddMatColIter
    \/ AddMatColReturn
    \/ MWrite
    \/ WriteGenerated

Spec == Init /\ [][Next]_vars

----------------------------------------------------------------------------
(* The packers alone, on every column of at most MaxLen values *)

PackInit ==
    /\ call \in {"_add_col_to_bytearray_with_padding",
                 "_add_mat_col_to_bytearray_with_padding"}
    /\ err = "none"
    /\ magic_numbers \in BOOLEAN
    /\ n \in 0 .. MaxLen
    /\ p = 1
    /\ \E c \in AllCols(n, AnyValues) :
          IF call = "_add_col_to_bytearray_with_padding"
          THEN /\ col = c
               /\ m = <<>>
               /\ pc = "col_pack"
          ELSE /\ col = <<>>
               /\ m = <<c>>
               /\ pc = "mat_pack"
    /\ col_ix = 0
    /\ row_ix = 0
    /\ barr = IF magic_numbers THEN MagicBytes ELSE <<>>
    /\ randFile = NoFile
    /\ matFile = NoFile

PackNext ==
    \/ AddColIter
    \/ AddColReturn
    \/ AddMatColIter
    \/ AddMatColReturn

PackSpec == PackInit /\ [][PackNext]_vars

\* a call runs to its end: nothing suspends the loop
PackFairSpec == PackSpec /\ WF_vars(PackNext)

----------------------------------------------------------------------------
(* The format as the specification states it *)

\* the 2-bit code of a genotype value: HomAlt 00, Het 10, Missing 01,
\* HomRef 11
Code(gt) ==
    CASE gt = Num(2) -> 0
      [] gt = Num(1) -> 2
      [] gt = NaN    -> 1
      [] gt = Num(0) -> 3
      [] OTHER       -> -1

\* the genotype value of a 2-bit code
Uncode(c) ==
    CASE c = 0 -> Num(2)
      [] c = 2 -> Num(1)
      [] c = 1 -> NaN
      [] c = 3 -> Num(0)

Byte(c0, c1, c2, c3) == c0 + c1 * 4 + c2 * 16 + c3 * 64

\* the 2-bit slot i (0 is the least significant) of byte b
Slot(b, i) == (b \div (4 ^ i)) % 4

CeilDiv4(k) == (k + 3) \div 4

\* the code at row r (from 0) of column c, HomRef beyond its end
CodeAt(c, r) == IF r >= Len(c) THEN 3 ELSE Code(c[r + 1])

PackedColumn(c) ==
    [g \in 1 .. CeilDiv4(Len(c)) |->
        Byte(CodeAt(c, 4 * g - 4), CodeAt(c, 4 * g - 3),
             CodeAt(c, 4 * g - 2), CodeAt(c, 4 * g - 1))]

\* the first len values a reader recovers from the bytes bs
Decode(bs, len) ==
    [i \in 1 .. len |-> Uncode(Slot(bs[((i - 1) \div 4) + 1], (i - 1) % 4))]

RECURSIVE PackedColumns(_, _)
\* the bytes of the first j columns of mat, in column order
PackedColumns(mat, j) ==
    IF j = 0 THEN <<>>
    ELSE PackedColumns(mat, j - 1) \o PackedColumn(mat[j])

Header == IF magic_numbers THEN <<108, 27, 1>> ELSE <<>>

IsPrefix(s, t) == Len(s) <= Len(t) /\ SubSeq(t, 1, Len(s)) = s

\* the column under the packer, the buffer it was given, what it appended
ThisCol ==
    IF call \in {"rand_bed_file", "_add_col_to_bytearray_with_padding"}
    THEN col ELSE m[col_ix + 1]

Appended == SubSeq(barr, Len(Header) + 1, Len(barr))

ValidCol == \A i \in 1 .. Len(ThisCol) : ThisCol[i] \in ValidValues

\* the file of the running writer
ThisFile == IF call = "rand_bed_file" THEN randFile ELSE matFile

----------------------------------------------------------------------------
(* Claims about the packers (PackSpec) *)

\* C1: every byte packed from a group of 4 values g0..g3 is
\* c0 | c1 << 2 | c2 << 4 | c3 << 6 with ci the code of gi, the first
\* individual in the least significant bits; [HomAlt, Het, Missing, HomRef]
\* packs to 0xD8.
C1_BitOrder ==
    /\ \A g \in 0 .. Len(ThisCol) :
          (g < Len(Appended) /\ 4 * g + 4 <= Len(ThisCol)) =>
              Appended[g + 1] =
                  Byte(Code(ThisCol[4 * g + 1]), Code(ThisCol[4 * g + 2]),
                       Code(ThisCol[4 * g + 3]), Code(ThisCol[4 * g + 4]))
    /\ (pc = "returned" /\ ThisCol = <<Num(2), Num(1), NaN, Num(0)>>) =>
          barr = Header \o <<216>>

C1_Witness ==
    /\ pc = "returned"
    /\ ThisCol = <<Num(2), Num(1), NaN, Num(0)>>
    /\ Appended = <<216>>

\* C2: when n mod 4 # 0 the slots of the last byte at rows >= n carry the
\* HomRef code 11 and the slots at rows < n carry the codes of the values;
\* [HomRef] packs to the one byte 0xFF and [Missing] to the one byte 0xFD.
C2_Padding ==
    /\ (pc = "returned" /\ Len(ThisCol) % 4 # 0) =>
          LET last == barr[Len(barr)]
              row0 == 4 * (Len(ThisCol) \div 4)
          IN  \A i \in 0 .. 3 :
                 Slot(last, i) = IF row0 + i >= Len(ThisCol) THEN 3
                                 ELSE Code(ThisCol[row0 + i + 1])
    /\ (pc = "returned" /\ ThisCol = <<Num(0)>>) => Appended = <<255>>
    /\ (pc = "returned" /\ ThisCol = <<NaN>>) => Appended = <<253>>

C2_Witness ==
    /\ pc = "returned"
    /\ Len(ThisCol) = 5
    /\ ThisCol[5] = NaN
    /\ barr[Len(barr)] = 253

\* C3: packing a column of n valid values appends exactly ceil(n/4) bytes
\* to the buffer, at no point more, and the loop terminates.
C3_Length ==
    /\ [](ValidCol =>
            /\ IsPrefix(Header, barr)
            /\ Len(Appended) <= CeilDiv4(Len(ThisCol))
            /\ pc = "returned" => Len(Appended) = CeilDiv4(Len(ThisCol)))
    /\ [](ValidCol => <>(pc = "returned"))

C3_Witness ==
    /\ pc = "returned"
    /\ ValidCol
    /\ Len(ThisCol) = 5
    /\ Len(Appended) = 2

\* C10: packing is invertible given n: reading the first n slots of the
\* packed bytes through the inverse code table gives the column back, and
\* the remaining slots of the last byte are 11.
C10_Invertible ==
    pc = "returned" =>
        /\ Decode(Appended, Len(ThisCol)) = ThisCol
        /\ \A r \in Len(ThisCol) .. 4 * Len(Appended) - 1 :
              Slot(Appended[(r \div 4) + 1], r % 4) = 3

C10_Witness ==
    /\ pc = "returned"
    /\ Len(ThisCol) = 5
    /\ Decode(Appended, 5) = ThisCol
    /\ NaN \in {ThisCol[i] : i \in 1 .. 5}
    /\ Num(1) \in {ThisCol[i] : i \in 1 .. 5}

----------------------------------------------------------------------------
(* Claims about the writers (Spec) *)

\* the output after j columns have been written
Written(j) == IF j = 0 THEN <<>> ELSE Header \o PackedColumns(m, j)

\* C4: on the same values and the same header flag rand_bed_file and
\* write_m_to_bed produce byte-identical files.
C4_SameFile ==
    (call = "write_m_to_bed" /\ pc = "done" /\ randFile.opened) =>
        matFile.data = randFile.data

C4_Witness ==
    /\ call = "write_m_to_bed"
    /\ pc = "done"
    /\ randFile.opened
    /\ n = 5
    /\ Len(m) = 2
    /\ MatNonRefCount(m) > 0
    /\ matFile.data = randFile.data
    /\ Len(matFile.data) = Len(Header) + 4

\* C5: a write of n >= 0 individuals and p >= 0 markers with the header
\* enabled that completes leaves exactly 3 + p * ceil(n/4) bytes.
C5_FileSize ==
    (pc = "done" /\ magic_numbers /\ n >= 0 /\ p >= 0) =>
        Len(ThisFile.data) = 3 + p * CeilDiv4(n)

\* C6: a completed write begins with 0x6C 0x1B 0x01 when the header is
\* enabled and does not begin with them when it is disabled.
C6_Header ==
    (pc = "done" /\ n >= 0 /\ p >= 0) =>
        (magic_numbers <=> IsPrefix(<<108, 27, 1>>, ThisFile.data))

\* C7: packing a group that holds a value outside {0, 1, 2, NaN} raises
\* an error; no byte of the group is appended to the buffer and nothing is
\* written to the output, then or later.
C7_InvalidRejected ==
    [][/\ (/\ pc \in {"col_pack", "mat_pack"}
           /\ row_ix < n
           /\ \E i \in row_ix + 1 .. row_ix + 4 :
                 i <= n /\ ThisCol[i] \notin ValidValues)
          => (/\ pc' = "raised"
              /\ err' = "KeyError"
              /\ barr' = barr
              /\ randFile' = randFile
              /\ matFile' = matFile)
       /\ (err = "KeyError")
          => UNCHANGED <<pc, err, barr, randFile, matFile>>]_vars

C7_Witness ==
    /\ pc = "raised"
    /\ err = "KeyError"
    /\ col_ix = 1
    /\ row_ix = 4
    /\ ThisCol[5] = BadGt
    /\ Len(barr) = 1
    /\ Len(matFile.data) = Len(Header) + 2

\* C8: a write with a negative n or p fails with an error, reported before
\* the output is opened, truncated or written.
C8_InvalidDimension ==
    (n < 0 \/ p < 0) => (~ ThisFile.opened /\ pc # "done")

\* C9: the output always holds the bytes of a complete write cut at a
\* column boundary: header and columns in order, each byte once; written
\* bytes are never removed or changed; after an error in column k no byte of
\* column k or of a later column is written.
C9_ColumnPrefix ==
    /\ [](/\ ThisFile.data = Written(col_ix)
          /\ call = "write_m_to_bed" /\ randFile.opened
                => randFile.data = Written(Len(m)))
    /\ [][/\ IsPrefix(randFile.data, randFile'.data)
          /\ IsPrefix(matFile.data, matFile'.data)
          /\ pc = "raised" => UNCHANGED <<randFile, matFile>>]_vars

C9_Witness ==
    /\ pc = "raised"
    /\ err = "KeyError"
    /\ n = 5
    /\ col_ix = 1
    /\ Len(m) = 2
    /\ matFile.data = Header \o PackedColumn(m[1])
    /\ Len(barr) = 1

====
